---- MODULE Spec2Model ----
(***************************************************************************)
(* The toast notification manager of src/unnamed/part_000 (the use-toast  *)
(* hook): the module-scoped store (memoryState, listeners), the timer      *)
(* registry (toastTimeouts), the reducer with the timer bookkeeping it     *)
(* performs, dispatch, the toast() facade with its handles, the useToast   *)
(* hook's dismiss/clearAll and subscription effect, and cleanup(); and the *)
(* weather card of src/unnamed/part_002 (WeatherComponent): its React      *)
(* state, its geolocation request, its simulated fetch and its refresh     *)
(* button.                                                                 *)
(*                                                                         *)
(* An optional value (duration?: number, toastId?: string) is a sequence   *)
(* of length at most one: <<>> is undefined, <<v>> is the value v.         *)
(* A timer handle returned by setTimeout is the record of what the timer   *)
(* was armed with and of when it is due, [toastId, delay, due]; the host's *)
(* table of armed timers is a bag of handles, so two armed timers with     *)
(* equal arguments are counted twice.  The clock moves in SpecTime only;   *)
(* the other specifications let an armed timer fire at any moment.         *)
(***************************************************************************)
EXTENDS Bags, FiniteSets, Integers, Sequences, TLC

VARIABLES
    count,          \* let count (the id counter of genId)
    memoryState,    \* let memoryState: State = [toasts |-> sequence of toasts]
    toastTimeouts,  \* const toastTimeouts = new Map(): toast id -> timer handle
    timers,         \* the host's armed timers (setTimeout'ed, not fired, not cleared)
    now,            \* the host's clock: milliseconds since the module was loaded
    listeners,      \* const listeners: sequence of the subscribed setState's
    phase,          \* per UI binding: "none", "rendered" (useState ran), "subscribed"
    local,          \* per UI binding: the React state of useToast
    notified,       \* what the last dispatch handed to the listeners, and the
                    \* ids that had a registry entry at that moment
    hist,           \* history: how and when each created toast was created, whether a
                    \* dismiss named it or swept it, and whether the id
                    \* counter has wrapped
    last,           \* history: the last operation performed
    geolocation,    \* whether the browser has navigator.geolocation
    weather,        \* WeatherComponent: useState<WeatherData | null>(null)
    loading,        \* WeatherComponent: useState<boolean>(true)
    error,          \* WeatherComponent: useState<string | null>(null)
    location,       \* WeatherComponent: useState<GeolocationCoords | null>(null)
    mounted,        \* WeatherComponent: useState<boolean>(false)
    geoRequests,    \* getCurrentPosition calls whose callback has not run
    fetches,        \* fetchWeather calls suspended at their await
    updates         \* the setState calls the running handler has still to make

\* the variables of the weather component and of its browser
weatherVars == <<geolocation, weather, loading, error, location, mounted,
                 geoRequests, fetches, updates>>

\* the variables of the toast store
storeVars == <<count, memoryState, toastTimeouts, timers, now, listeners,
               phase, local, notified, hist, last>>

vars == <<storeVars, weatherVars>>

----------------------------------------------------------------------------
(* Program constants *)

TOAST_LIMIT == 5
TOAST_REMOVE_DELAY == 5000
\* Number.MAX_SAFE_INTEGER is 2^53 - 1; TLC's integers are 32 bits wide, so the
\* wrap point of genId is written as the largest of them.  Creation is capped
\* at MaxCount, far below either value.
MAX_SAFE_INTEGER == 2147483647
\* toastWarning's preset duration
WARNING_DURATION == 7000

(* Bounds of the model *)

\* toasts created in a behaviour of Spec
MaxCount == 2
\* toasts created in a behaviour of SpecCap and of SpecReducer
MaxToasts == 6
\* toasts created in a behaviour of SpecSub
MaxSubToasts == 2
\* toasts created in a behaviour of SpecLive
MaxLiveToasts == 2
\* toasts created in a behaviour of SpecVariants
MaxVariantToasts == 2
\* SpecTime: toasts created, the short duration callers pass, and the time
\* the clock stops at
MaxTimedToasts == 3
ShortDuration == 200
MaxTime == 5500
\* SpecWrap: how far below its wrap point the id counter can start, and the
\* value of the counter at which creation stops
WrapMargin == 3
MaxWrapCount == 3
\* number of UI bindings (components calling useToast)
NumComponents == 2
\* geolocation requests, and simulated fetches, pending at the same time
MaxPending == 2

----------------------------------------------------------------------------
(* Values *)

Undefined == <<>>
Some(v) == <<v>>

\* the durations callers pass to toast(): none, 0 (persistent), the warning preset
Durations == {Undefined, Some(0), Some(WARNING_DURATION)}

\* count.toString()
IdOf(n) == ToString(n)

\* null, the initial value of a nullable React state
Null == <<>>

\* every id genId returns in a behaviour of Spec
AllIds == {IdOf(n) : n \in 1..MaxCount}

\* every id genId returns in any of the specifications
EveryId == {IdOf(n) : n \in 1..MaxToasts} \cup AllIds

\* the strings callers pass as toastId: ids, and the empty string
ToastIdArgs == {Undefined, Some("")} \cup {Some(i) : i \in AllIds}

Components == 1..NumComponents

Min(a, b) == IF a < b THEN a ELSE b

\* Array.prototype.slice(0, n)
Slice(s, n) == SubSeq(s, 1, Min(n, Len(s)))

\* { ...t, ...p }: the fields of p override those of t
Spread(t, p) ==
    [f \in DOMAIN t \cup DOMAIN p |-> IF f \in DOMAIN p THEN p[f] ELSE t[f]]

\* the ids of the toasts of a list
Ids(toasts) == {toasts[i].id : i \in 1..Len(toasts)}

\* a string is truthy unless it is empty; undefined is falsy
Truthy(opt) == opt # Undefined /\ opt[1] # ""

----------------------------------------------------------------------------
(* Timer registry.  R = [timeouts |-> toastTimeouts, timers |-> armed timers] *)

Handle(toastId, delay) ==
    [toastId |-> toastId, delay |-> delay, due |-> now + delay]

\* clearTimeout(h): an armed timer with that handle is disarmed; no-op otherwise
ClearTimeout(armed, h) == armed (-) SetToBag({h})

\* setTimeout(cb, delay)
SetTimeout(armed, h) == armed (+) SetToBag({h})

\* Map.prototype.delete
MapDelete(m, k) == [x \in DOMAIN m \ {k} |-> m[x]]

\* Map.prototype.set
MapSet(m, k, v) == [x \in DOMAIN m \cup {k} |-> IF x = k THEN v ELSE m[x]]

EmptyMap == [x \in {} |-> x]

\* addToRemoveQueue without the clearTimeout of the timer already registered
addToRemoveQueue_NoClear(R, toastId, duration) ==
    LET delay   == IF duration = Undefined THEN TOAST_REMOVE_DELAY ELSE duration[1]
        timeout == Handle(toastId, delay)
    IN  [timeouts |-> MapSet(R.timeouts, toastId, timeout),
         timers   |-> SetTimeout(R.timers, timeout)]

addToRemoveQueue(R, toastId, duration) ==
    LET cleared == IF toastId \in DOMAIN R.timeouts
                   THEN ClearTimeout(R.timers, R.timeouts[toastId])
                   ELSE R.timers
        delay   == IF duration = Undefined THEN TOAST_REMOVE_DELAY ELSE duration[1]
        timeout == Handle(toastId, delay)
    IN  [timeouts |-> MapSet(R.timeouts, toastId, timeout),
         timers   |-> SetTimeout(cleared, timeout)]

\* removeFromRemoveQueue without the clearTimeout
removeFromRemoveQueue_DeleteOnly(R, toastId) ==
    [timeouts |-> MapDelete(R.timeouts, toastId), timers |-> R.timers]

removeFromRemoveQueue(R, toastId) ==
    IF toastId \in DOMAIN R.timeouts
    THEN [timeouts |-> MapDelete(R.timeouts, toastId),
          timers   |-> ClearTimeout(R.timers, R.timeouts[toastId])]
    ELSE R

\* toastTimeouts.forEach(clearTimeout); toastTimeouts.clear()
RECURSIVE ClearEach(_, _)
ClearEach(armed, hs) ==
    IF hs = {} THEN armed
    ELSE LET h == CHOOSE x \in hs : TRUE
         IN  ClearEach(ClearTimeout(armed, h), hs \ {h})

\* clearAllTimeouts without the forEach: toastTimeouts.clear() alone
clearAllTimeouts_MapOnly(R) == [timeouts |-> EmptyMap, timers |-> R.timers]

clearAllTimeouts(R) ==
    [timeouts |-> EmptyMap,
     timers   |-> ClearEach(R.timers, {R.timeouts[k] : k \in DOMAIN R.timeouts})]

\* state.toasts.forEach(toast => addToRemoveQueue(toast.id, toast.duration))
RECURSIVE addEachToRemoveQueue(_, _)
addEachToRemoveQueue(R, toasts) ==
    IF toasts = <<>> THEN R
    ELSE addEachToRemoveQueue(
             addToRemoveQueue(R, Head(toasts).id, Head(toasts).duration),
             Tail(toasts))

----------------------------------------------------------------------------
(* Reducer.  An action is [type, toast] or [type, toastId]; the result is   *)
(* the next state together with the registry as the reducer leaves it.      *)

\* reduceAdd without the truncation to the capacity
reduceAdd_NoSlice(state, action) ==
    [toasts |-> <<action.toast>> \o state.toasts]

\* reduceAdd pushing the new toast at the tail
reduceAdd_AtTail(state, action) ==
    [toasts |-> Slice(state.toasts \o <<action.toast>>, TOAST_LIMIT)]

reduceAdd(state, action) ==
    [toasts |-> Slice(<<action.toast>> \o state.toasts, TOAST_LIMIT)]

\* reduceUpdate replacing the matching toast by the partial toast
reduceUpdate_Replace(state, action) ==
    [toasts |-> [i \in 1..Len(state.toasts) |->
                    LET t == state.toasts[i]
                    IN  IF t.id = action.toast.id THEN action.toast ELSE t]]

\* reduceUpdate inserting the partial toast when no toast has its id
reduceUpdate_Upsert(state, action) ==
    IF action.toast.id \in Ids(state.toasts)
    THEN [toasts |-> [i \in 1..Len(state.toasts) |->
                         LET t == state.toasts[i]
                         IN  IF t.id = action.toast.id
                             THEN Spread(t, action.toast) ELSE t]]
    ELSE [toasts |-> Append(state.toasts, action.toast)]

\* reduceUpdate moving the updated toast to the head of the list
reduceUpdate_ToFront(state, action) ==
    [toasts |->
        [i \in 1..Len(SelectSeq(state.toasts,
                                LAMBDA t : t.id = action.toast.id)) |->
            Spread(SelectSeq(state.toasts,
                             LAMBDA t : t.id = action.toast.id)[i],
                   action.toast)]
        \o SelectSeq(state.toasts, LAMBDA t : t.id # action.toast.id)]

reduceUpdate(state, action) ==
    \* state.toasts.map(t => t.id === action.toast.id ? {...t, ...action.toast} : t)
    [toasts |-> [i \in 1..Len(state.toasts) |->
                    LET t == state.toasts[i]
                    IN  IF t.id = action.toast.id
                        THEN Spread(t, action.toast) ELSE t]]

\* a DISMISS_TOAST case that arms no timer
dismissEffects_None(state, R, toastId) == R

\* the side effects of the DISMISS_TOAST case
dismissEffects(state, R, toastId) ==
    IF Truthy(toastId)
    THEN addToRemoveQueue(R, toastId[1], Undefined)
    ELSE addEachToRemoveQueue(R, state.toasts)

\* reduceDismiss closing the named toast only: t.id === toastId
reduceDismiss_OnlyNamed(state, action) ==
    [toasts |-> [i \in 1..Len(state.toasts) |->
                    LET t == state.toasts[i]
                    IN  IF Some(t.id) = action.toastId
                        THEN Spread(t, [open |-> FALSE]) ELSE t]]

\* reduceDismiss flipping the flag: open: !t.open
reduceDismiss_Toggle(state, action) ==
    [toasts |-> [i \in 1..Len(state.toasts) |->
                    LET t == state.toasts[i]
                    IN  IF Some(t.id) = action.toastId
                           \/ action.toastId = Undefined
                        THEN Spread(t, [open |-> ~t.open]) ELSE t]]

\* reduceDismiss closing every toast whatever the toastId
reduceDismiss_All(state, action) ==
    [toasts |-> [i \in 1..Len(state.toasts) |->
                    Spread(state.toasts[i], [open |-> FALSE])]]

reduceDismiss(state, action) ==
    \* t.id === toastId || toastId === undefined ? {...t, open: false} : t
    [toasts |-> [i \in 1..Len(state.toasts) |->
                    LET t == state.toasts[i]
                    IN  IF Some(t.id) = action.toastId
                           \/ action.toastId = Undefined
                        THEN Spread(t, [open |-> FALSE]) ELSE t]]

\* reduceRemove with the filter inverted: t.id === action.toastId
reduceRemove_KeepsMatch(state, action) ==
    IF action.toastId = Undefined
    THEN [toasts |-> <<>>]
    ELSE [toasts |-> SelectSeq(state.toasts,
                               LAMBDA t : Some(t.id) = action.toastId)]

\* reduceRemove dropping the oldest toast instead of the one named
reduceRemove_Oldest(state, action) ==
    IF action.toastId = Undefined
    THEN [toasts |-> <<>>]
    ELSE [toasts |-> SubSeq(state.toasts, 1, Len(state.toasts) - 1)]

\* reduceRemove without the case of the missing toastId
reduceRemove_NoIdKeeps(state, action) ==
    [toasts |-> SelectSeq(state.toasts,
                          LAMBDA t : Some(t.id) # action.toastId)]

\* reduceRemove erasing with the named toast every toast that is closed
reduceRemove_AndClosed(state, action) ==
    IF action.toastId = Undefined
    THEN [toasts |-> <<>>]
    ELSE [toasts |-> SelectSeq(state.toasts,
                               LAMBDA t : Some(t.id) # action.toastId
                                          /\ t.open)]

reduceRemove(state, action) ==
    IF action.toastId = Undefined
    THEN [toasts |-> <<>>]
    ELSE [toasts |-> SelectSeq(state.toasts,
                               LAMBDA t : Some(t.id) # action.toastId)]

\* a CLEAR_ALL_TOASTS case that leaves the timers alone
clearAllEffects_None(R) == R

\* the side effects of the CLEAR_ALL_TOASTS case
clearAllEffects(R) == clearAllTimeouts(R)

\* a reducer whose UPDATE_TOAST case re-arms the timer of the updated toast
\* when the update carries a duration
reducer_UpdateRearms(state, R, action) ==
    CASE action.type = "ADD_TOAST" ->
           [state |-> reduceAdd(state, action), R |-> R]
      [] action.type = "UPDATE_TOAST" ->
           [state |-> reduceUpdate(state, action),
            R     |-> IF "duration" \in DOMAIN action.toast
                      THEN addToRemoveQueue(R, action.toast.id,
                                            action.toast.duration)
                      ELSE R]
      [] action.type = "DISMISS_TOAST" ->
           [state |-> reduceDismiss(state, action),
            R     |-> dismissEffects(state, R, action.toastId)]
      [] action.type = "REMOVE_TOAST" ->
           [state |-> reduceRemove(state, action), R |-> R]
      [] action.type = "CLEAR_ALL_TOASTS" ->
           [state |-> [toasts |-> <<>>], R |-> clearAllEffects(R)]
      [] OTHER -> [state |-> state, R |-> R]

reducer(state, R, action) ==
    CASE action.type = "ADD_TOAST" ->
           [state |-> reduceAdd(state, action), R |-> R]
      [] action.type = "UPDATE_TOAST" ->
           [state |-> reduceUpdate(state, action), R |-> R]
      [] action.type = "DISMISS_TOAST" ->
           [state |-> reduceDismiss(state, action),
            R     |-> dismissEffects(state, R, action.toastId)]
      [] action.type = "REMOVE_TOAST" ->
           [state |-> reduceRemove(state, action), R |-> R]
      [] action.type = "CLEAR_ALL_TOASTS" ->
           [state |-> [toasts |-> <<>>], R |-> clearAllEffects(R)]
      [] OTHER -> [state |-> state, R |-> R]

----------------------------------------------------------------------------
(* Store *)

EmptyState == [toasts |-> <<>>]

\* no listener has been called
NoNotification == [to |-> <<>>, state |-> EmptyState, timerIds |-> {}]

Reg == [timeouts |-> toastTimeouts, timers |-> timers]

Range(s) == {s[i] : i \in 1..Len(s)}

\* dispatch calling the first listener only
dispatch_FirstOnly(state, R, ls, loc, action) ==
    LET r == reducer(state, R, action)
    IN  [state    |-> r.state,
         R        |-> r.R,
         local    |-> [c \in DOMAIN loc |->
                          IF ls # <<>> /\ c = Head(ls) THEN r.state ELSE loc[c]],
         notified |-> IF ls = <<>> THEN NoNotification
                      ELSE [to       |-> <<Head(ls)>>,
                            state    |-> r.state,
                            timerIds |-> DOMAIN r.R.timeouts]]

\* dispatch(action) on store state `state`, registry R, listener list ls and
\* the bindings' React states loc: memoryState = reducer(memoryState, action),
\* then every listener is called with the new memoryState.
dispatch(state, R, ls, loc, action) ==
    LET r == reducer(state, R, action)
    IN  [state    |-> r.state,
         R        |-> r.R,
         local    |-> [c \in DOMAIN loc |->
                          IF c \in Range(ls) THEN r.state ELSE loc[c]],
         notified |-> IF ls = <<>> THEN NoNotification
                      ELSE [to       |-> ls,
                            state    |-> r.state,
                            timerIds |-> DOMAIN r.R.timeouts]]

\* genId() without the increment
genId_NoIncrement(c) == c % MAX_SAFE_INTEGER

\* genId(): the next value of count
genId(c) == (c + 1) % MAX_SAFE_INTEGER

\* the handles toast() has returned so far
CreatedIds == {IdOf(n) : n \in 1..count}

\* ids genId has not returned yet
FutureIds == {IdOf(n) : n \in (count + 1)..MaxCount}

\* history is kept for the toasts of the list, for those the step has just
\* erased from it and, when a dismiss named an id before its creation, for
\* that id
TrimHist(h, toasts, futureIds) ==
    LET keep == Ids(toasts) \cup Ids(memoryState.toasts)
    IN  [born      |-> [i \in DOMAIN h.born \cap keep |-> h.born[i]],
         at        |-> [i \in DOMAIN h.at \cap keep |-> h.at[i]],
         dismissed |-> h.dismissed \cap (keep \cup futureIds),
         wrapped   |-> h.wrapped]

\* the ids a DISMISS_TOAST with this toastId arms a timer for
DismissTargets(state, toastId) ==
    IF Truthy(toastId) THEN {toastId[1]} ELSE Ids(state.toasts)

\* the record of an operation: its name, its id argument, the ids of the
\* toasts it erased from the list and the ids whose registry entry it deleted
Op(name, arg) ==
    [op       |-> name,
     arg      |-> arg,
     dropped  |-> Ids(memoryState.toasts) \ Ids(memoryState'.toasts),
     disarmed |-> DOMAIN toastTimeouts \ DOMAIN toastTimeouts']

\* the effect of a dispatch on the store's variables
Commit(d) ==
    /\ memoryState' = d.state
    /\ toastTimeouts' = d.R.timeouts
    /\ timers' = d.R.timers
    /\ local' = d.local
    /\ notified' = d.notified

----------------------------------------------------------------------------
(* Operations *)

\* WeatherComponent before its first effect: the initial values of useState
WeatherConstructed ==
    /\ weather = Null
    /\ loading = TRUE
    /\ error = Null
    /\ location = Null
    /\ mounted = FALSE
    /\ geoRequests = 0
    /\ fetches = 0
    /\ updates = <<>>

\* the titles callers give their toasts, and the partial toasts they pass to
\* a handle's update()
Titles == {"a"}
UpdateProps ==
    {[duration |-> d] : d \in Durations} \cup {[open |-> b] : b \in BOOLEAN}

\* toast() arming the auto-removal timer whatever the duration
autoDismiss_Always(R, id, duration) == addToRemoveQueue(R, id, duration)

\* toast() arming the auto-removal timer without passing the duration
autoDismiss_DefaultDelay(R, id, duration) ==
    IF duration # Some(0) THEN addToRemoveQueue(R, id, Undefined) ELSE R

\* toast() arming no auto-removal timer
autoDismiss_Never(R, id, duration) == R

\* the tail of toast(): if (duration !== 0) addToRemoveQueue(id, duration)
autoDismiss(R, id, duration) ==
    IF duration # Some(0) THEN addToRemoveQueue(R, id, duration) ELSE R

\* toast({duration, ...props}) called with the object arg: the id it returns,
\* the duration it destructured, the next value of count and the store as
\* it leaves it
toast(arg) ==
    LET duration == IF "duration" \in DOMAIN arg THEN arg.duration ELSE Undefined
        props    == [f \in DOMAIN arg \ {"duration"} |-> arg[f]]
        n        == genId(count)
        id       == IdOf(n)
        d        == dispatch(memoryState, Reg, listeners, local,
                             [type  |-> "ADD_TOAST",
                              toast |-> Spread(props,
                                               [id |-> id, duration |-> duration,
                                                open |-> TRUE])])
    IN  [count |-> n, id |-> id, duration |-> duration,
         d |-> [d EXCEPT !.R = autoDismiss(d.R, id, duration)]]

\* toastError with the spread after the preset: the caller's fields win
toastError_CallerWins(props) ==
    toast(Spread([variant |-> "destructive", duration |-> Some(0)], props))

\* the convenience variants
toastSuccess(props) == toast(Spread(props, [variant |-> "default"]))
toastError(props) ==
    toast(Spread(props, [variant |-> "destructive", duration |-> Some(0)]))
toastWarning(props) ==
    toast(Spread(props, [variant |-> "default",
                         duration |-> Some(WARNING_DURATION)]))
toastInfo(props) == toast(Spread(props, [variant |-> "default"]))

\* a call of toast() or of a variant, r being what it returns and leaves
ToastAs(name, r) ==
    /\ count' = r.count
    /\ Commit(r.d)
    /\ hist' = TrimHist([hist EXCEPT !.born = MapSet(@, r.id, r.duration),
                                     !.at = MapSet(@, r.id, now),
                                     !.wrapped = @ \/ r.count <= count],
                        r.d.state.toasts, FutureIds \ {r.id})
    /\ UNCHANGED <<weatherVars, now, listeners, phase>>
    /\ last' = Op(name, Some(r.id))

\* toast({duration, title})
Toast(duration, title) ==
    ToastAs("toast", toast([title |-> title, duration |-> duration]))

\* the dismiss closure with its statements swapped: dispatch(DISMISS), then
\* removeFromRemoveQueue(id)
dismissHandle_CancelLast(state, R, ls, loc, id) ==
    LET d == dispatch(state, R, ls, loc,
                      [type |-> "DISMISS_TOAST", toastId |-> Some(id)])
    IN  [d EXCEPT !.R = removeFromRemoveQueue(d.R, id)]

\* the dismiss closure of toast(): removeFromRemoveQueue(id); dispatch(DISMISS)
dismissHandle(state, R, ls, loc, id) ==
    dispatch(state, removeFromRemoveQueue(R, id), ls, loc,
             [type |-> "DISMISS_TOAST", toastId |-> Some(id)])

\* handle.dismiss() of the toast with this id
HandleDismiss(id) ==
    /\ id \in CreatedIds
    /\ LET d == dismissHandle(memoryState, Reg, listeners, local, id)
       IN  /\ Commit(d)
           /\ hist' = TrimHist([hist EXCEPT !.dismissed = @ \cup {id}],
                               d.state.toasts, FutureIds)
    /\ UNCHANGED <<weatherVars, now, count, listeners, phase>>
    /\ last' = Op("handle.dismiss", Some(id))

\* handle.update(props) of the toast with this id
HandleUpdate(id, props) ==
    /\ id \in CreatedIds
    /\ Commit(dispatch(memoryState, Reg, listeners, local,
                       [type  |-> "UPDATE_TOAST",
                        toast |-> Spread(props, [id |-> id])]))
    /\ UNCHANGED <<weatherVars, now, count, listeners, phase, hist>>
    /\ last' = Op("handle.update", Some(id))

\* the onOpenChange callback with the test inverted: if (open) dismiss()
OnOpenChange_Inverted(id, open) ==
    /\ id \in CreatedIds
    /\ IF open
       THEN LET d == dismissHandle(memoryState, Reg, listeners, local, id)
            IN  /\ Commit(d)
                /\ hist' = TrimHist([hist EXCEPT !.dismissed = @ \cup {id}],
                                    d.state.toasts, FutureIds)
       ELSE UNCHANGED <<memoryState, toastTimeouts, timers, local, notified, hist>>
    /\ UNCHANGED <<weatherVars, now, count, listeners, phase>>
    /\ last' = Op(IF open THEN "onOpenChange(true)" ELSE "onOpenChange(false)",
                  Some(id))

\* the onOpenChange callback wired into the toast with this id
OnOpenChange(id, open) ==
    /\ id \in CreatedIds
    /\ IF ~open
       THEN LET d == dismissHandle(memoryState, Reg, listeners, local, id)
            IN  /\ Commit(d)
                /\ hist' = TrimHist([hist EXCEPT !.dismissed = @ \cup {id}],
                                    d.state.toasts, FutureIds)
       ELSE UNCHANGED <<memoryState, toastTimeouts, timers, local, notified, hist>>
    /\ UNCHANGED <<weatherVars, now, count, listeners, phase>>
    /\ last' = Op(IF open THEN "onOpenChange(true)" ELSE "onOpenChange(false)",
                  Some(id))

\* useToast().dismiss(toastId)
HookDismiss(toastId) ==
    /\ LET R1 == IF Truthy(toastId)
                 THEN removeFromRemoveQueue(Reg, toastId[1])
                 ELSE Reg
           d  == dispatch(memoryState, R1, listeners, local,
                          [type |-> "DISMISS_TOAST", toastId |-> toastId])
       IN  /\ Commit(d)
           /\ hist' = TrimHist(
                        [hist EXCEPT !.dismissed =
                            @ \cup DismissTargets(memoryState, toastId)],
                        d.state.toasts, FutureIds)
    /\ UNCHANGED <<weatherVars, now, count, listeners, phase>>
    /\ last' = Op("dismiss", toastId)

\* useToast().clearAll()
ClearAll ==
    /\ LET d == dispatch(memoryState, Reg, listeners, local,
                         [type |-> "CLEAR_ALL_TOASTS"])
       IN  /\ Commit(d)
           /\ hist' = TrimHist(hist, d.state.toasts, FutureIds)
    /\ UNCHANGED <<weatherVars, now, count, listeners, phase>>
    /\ last' = Op("clearAll", Undefined)

\* cleanup()
Cleanup ==
    /\ LET R1 == clearAllTimeouts(Reg)
       IN  /\ toastTimeouts' = R1.timeouts
           /\ timers' = R1.timers
    /\ memoryState' = EmptyState
    /\ listeners' = <<>>
    /\ hist' = TrimHist(hist, <<>>, FutureIds)
    /\ UNCHANGED <<weatherVars, now, count, phase, local, notified>>
    /\ last' = Op("cleanup", Undefined)

\* an armed timer fires: the callback of addToRemoveQueue
TimerFire(h) ==
    /\ BagIn(h, timers)
    /\ LET R1 == [timeouts |-> MapDelete(toastTimeouts, h.toastId),
                  timers   |-> timers (-) SetToBag({h})]
           d  == dispatch(memoryState, R1, listeners, local,
                          [type |-> "REMOVE_TOAST", toastId |-> Some(h.toastId)])
       IN  /\ Commit(d)
           /\ hist' = TrimHist(hist, d.state.toasts, FutureIds)
    /\ UNCHANGED <<weatherVars, now, count, listeners, phase>>
    /\ last' = Op("timer", Some(h.toastId))

\* an armed timer fires when it is due: the host runs the callback no earlier
\* than delay ms after setTimeout
TimerDue(h) ==
    /\ h.due <= now
    /\ TimerFire(h)

\* the instants the clock moves to: one ms before an armed timer is due, the
\* instant it is due, and one ms after a timer has fired
TickTargets ==
    {h.due - 1 : h \in DOMAIN timers} \cup {h.due : h \in DOMAIN timers}
        \cup (IF last.op = "timer" THEN {now + 1} ELSE {})

\* time passes up to t; the host lets no armed timer become overdue
Tick(t) ==
    /\ now < t
    /\ t <= MaxTime
    /\ \A h \in DOMAIN timers : t <= h.due
    /\ now' = t
    /\ UNCHANGED <<weatherVars, count, memoryState, toastTimeouts, timers,
                   listeners, phase, local, notified, hist>>
    /\ last' = Op("tick", Undefined)

\* a UI binding renders for the first time: React.useState(memoryState)
Render(c) ==
    /\ phase[c] = "none"
    /\ phase' = [phase EXCEPT ![c] = "rendered"]
    /\ local' = [local EXCEPT ![c] = memoryState]
    /\ UNCHANGED <<weatherVars, now, count, memoryState, toastTimeouts, timers, listeners,
                   notified, hist>>
    /\ last' = Op("render", Undefined)

\* its effect runs: listeners.push(setState)
Subscribe(c) ==
    /\ phase[c] = "rendered"
    /\ phase' = [phase EXCEPT ![c] = "subscribed"]
    /\ listeners' = Append(listeners, c)
    /\ UNCHANGED <<weatherVars, now, count, memoryState, toastTimeouts, timers, local,
                   notified, hist>>
    /\ last' = Op("subscribe", Undefined)

\* index of the first occurrence of c in ls, 0 (for -1) when there is none
IndexOf(ls, c) ==
    IF c \in Range(ls) THEN CHOOSE i \in 1..Len(ls) :
                                /\ ls[i] = c
                                /\ \A j \in 1..(i - 1) : ls[j] # c
    ELSE 0

\* listeners.splice(index): everything from index on is removed
Splice_ToEnd(ls, index) == SubSeq(ls, 1, index - 1)

\* listeners.splice(index, 1)
Splice(ls, index) ==
    SubSeq(ls, 1, index - 1) \o SubSeq(ls, index + 1, Len(ls))

\* the effect's cleanup runs when the binding unmounts
Unmount(c) ==
    /\ phase[c] = "subscribed"
    /\ phase' = [phase EXCEPT ![c] = "none"]
    /\ listeners' = IF IndexOf(listeners, c) > 0
                    THEN Splice(listeners, IndexOf(listeners, c))
                    ELSE listeners
    /\ local' = [local EXCEPT ![c] = EmptyState]
    /\ UNCHANGED <<weatherVars, now, count, memoryState, toastTimeouts, timers, notified, hist>>
    /\ last' = Op("unmount", Undefined)

----------------------------------------------------------------------------
(* Specification of the facade: the operations application code, the       *)
(* rendering layer and the host's timers can perform.                      *)

Init ==
    /\ count = 0
    /\ memoryState = EmptyState
    /\ toastTimeouts = EmptyMap
    /\ timers = EmptyBag
    /\ now = 0
    /\ listeners = <<>>
    /\ phase = [c \in Components |-> "none"]
    /\ local = [c \in Components |-> EmptyState]
    /\ notified = NoNotification
    /\ hist = [born |-> EmptyMap, at |-> EmptyMap, dismissed |-> {},
               wrapped |-> FALSE]
    /\ last = [op |-> "init", arg |-> Undefined, dropped |-> {}, disarmed |-> {}]
    /\ geolocation = TRUE
    /\ WeatherConstructed

\* one step of the facade with the callers' inputs drawn from the given sets:
\* at most max toasts created, durations and partial toasts passed by callers,
\* ids whose handle or callback is used, what the rendering layer reports to
\* onOpenChange, and arguments of dismiss()
FacadeStep(max, durations, ids, props, opens, args) ==
    \/ /\ count < max
       /\ \E d \in durations, t \in Titles : Toast(d, t)
    \/ \E i \in ids : HandleDismiss(i)
    \/ \E i \in ids, p \in props : HandleUpdate(i, p)
    \/ \E i \in ids, o \in opens : OnOpenChange(i, o)
    \/ \E a \in args : HookDismiss(a)
    \/ ClearAll
    \/ Cleanup
    \/ \E h \in DOMAIN timers : TimerFire(h)

\* one step of a UI binding
BindingStep ==
    \/ \E c \in Components : Render(c)
    \/ \E c \in Components : Subscribe(c)
    \/ \E c \in Components : Unmount(c)

\* Spec: every input the facade accepts, few toasts
Next == FacadeStep(MaxCount, Durations, AllIds, UpdateProps, BOOLEAN, ToastIdArgs)

Spec == Init /\ [][Next]_vars

----------------------------------------------------------------------------
(* SpecCap: enough toasts to overflow the capacity.  Callers pass no       *)
(* duration or 0 and keep the handle of the first toast only; the          *)
(* rendering layer reports the closing of that toast.                      *)

CapDurations == {Undefined, Some(0)}
CapIds == {IdOf(1)}
CapProps == {[duration |-> Some(0)]}
CapArgs == {Undefined, Some(IdOf(1))}

NextCap ==
    FacadeStep(MaxToasts, CapDurations, CapIds, CapProps, {FALSE}, CapArgs)

SpecCap == Init /\ [][NextCap]_vars

----------------------------------------------------------------------------
(* SpecSub: the facade together with UI bindings that mount, subscribe and  *)
(* unmount.                                                                 *)

NextSub ==
    \/ FacadeStep(MaxSubToasts, CapDurations, CapIds, CapProps, {FALSE}, CapArgs)
    \/ BindingStep

SpecSub == Init /\ [][NextSub]_vars

----------------------------------------------------------------------------
(* SpecReducer: actions dispatched to the store one by one, as a caller of  *)
(* the exported reducer can, interleaved with the firing of the timers the  *)
(* reducer armed.  An ADD carries a fresh id (the precondition of ADD).     *)

\* dispatch(action)
Dispatch(action, arg) ==
    /\ Commit(dispatch(memoryState, Reg, listeners, local, action))
    /\ UNCHANGED <<weatherVars, now, listeners, phase, hist>>
    /\ last' = Op(action.type, arg)

DispatchAdd(duration, title) ==
    /\ count' = genId(count)
    /\ Dispatch([type  |-> "ADD_TOAST",
                 toast |-> [id |-> IdOf(count'), title |-> title,
                            duration |-> duration, open |-> TRUE]],
                Some(IdOf(count')))

DispatchUpdate(id, props) ==
    /\ Dispatch([type |-> "UPDATE_TOAST", toast |-> Spread(props, [id |-> id])],
                Some(id))
    /\ UNCHANGED count

DispatchDismiss(toastId) ==
    /\ Dispatch([type |-> "DISMISS_TOAST", toastId |-> toastId], toastId)
    /\ UNCHANGED count

DispatchRemove(toastId) ==
    /\ Dispatch([type |-> "REMOVE_TOAST", toastId |-> toastId], toastId)
    /\ UNCHANGED count

DispatchClearAll ==
    /\ Dispatch([type |-> "CLEAR_ALL_TOASTS"], Undefined)
    /\ UNCHANGED count

NextReducer ==
    \/ /\ count < MaxToasts
       /\ \E d \in CapDurations, t \in Titles : DispatchAdd(d, t)
    \/ \E i \in CapIds, p \in CapProps : DispatchUpdate(i, p)
    \/ \E a \in CapArgs : DispatchDismiss(a)
    \/ \E a \in CapArgs : DispatchRemove(a)
    \/ DispatchClearAll
    \/ \E h \in DOMAIN timers : TimerFire(h)

SpecReducer == Init /\ [][NextReducer]_vars

----------------------------------------------------------------------------
(* SpecWrap: the facade in a process whose id counter is at 0 or close to   *)
(* its wrap point, after that many creations, with nothing left in the      *)
(* list and in the registry.                                                *)

WrapStarts == {0, MAX_SAFE_INTEGER - WrapMargin}

InitWrap ==
    /\ count \in WrapStarts
    /\ memoryState = EmptyState
    /\ toastTimeouts = EmptyMap
    /\ timers = EmptyBag
    /\ now = 0
    /\ listeners = <<>>
    /\ phase = [c \in Components |-> "none"]
    /\ local = [c \in Components |-> EmptyState]
    /\ notified = NoNotification
    /\ hist = [born |-> EmptyMap, at |-> EmptyMap, dismissed |-> {},
               wrapped |-> FALSE]
    /\ last = [op |-> "init", arg |-> Undefined, dropped |-> {}, disarmed |-> {}]
    /\ geolocation = TRUE
    /\ WeatherConstructed

NextWrap ==
    \/ /\ count # MaxWrapCount
       /\ \E d \in CapDurations, t \in Titles : Toast(d, t)
    \/ HookDismiss(Undefined)
    \/ ClearAll
    \/ Cleanup
    \/ \E h \in DOMAIN timers : TimerFire(h)

SpecWrap == InitWrap /\ [][NextWrap]_vars

----------------------------------------------------------------------------
(* SpecTime: the facade under a clock.  Timers fire when they are due and   *)
(* not before; callers create toasts with the short duration or with none,  *)
(* dismiss the first toast by its handle and clear the list.                *)

TimedDurations == {Undefined, Some(ShortDuration)}

NextTime ==
    \/ /\ count < MaxTimedToasts
       /\ \E d \in TimedDurations, t \in Titles : Toast(d, t)
    \/ \E i \in CapIds : HandleDismiss(i)
    \/ ClearAll
    \/ \E h \in DOMAIN timers : TimerDue(h)
    \/ \E t \in TickTargets : Tick(t)

SpecTime == Init /\ [][NextTime]_vars

----------------------------------------------------------------------------
(* SpecLive: the facade with the host's guarantee that timers fire: for    *)
(* each id, if a timer stays armed for the id, a timer of the id eventually *)
(* fires.  Callers create persistent toasts and warnings, reopen a toast    *)
(* or make it persistent through its handle, and dismiss by handle, by id   *)
(* and globally.                                                            *)

LiveDurations == {Some(0), Some(WARNING_DURATION)}
LiveIds == {IdOf(n) : n \in 1..MaxLiveToasts}
LiveProps == {[open |-> TRUE], [duration |-> Some(0)]}
LiveArgs == {Undefined, Some(IdOf(1))}

NextLive ==
    FacadeStep(MaxLiveToasts, LiveDurations, LiveIds, LiveProps, {FALSE},
               LiveArgs)

\* some armed timer of this id fires
FireFor(id) == \E h \in DOMAIN timers : h.toastId = id /\ TimerFire(h)

SpecLive ==
    Init /\ [][NextLive]_vars /\ \A id \in LiveIds : WF_vars(FireFor(id))

----------------------------------------------------------------------------
(* SpecVariants: toasts created by toast() and by the convenience variants, *)
(* with and without a duration passed by the caller.                        *)

VariantProps ==
    {[title |-> "a"], [title |-> "a", duration |-> Some(0)],
     [title |-> "a", duration |-> Some(ShortDuration)]}

NextVariants ==
    \/ /\ count < MaxVariantToasts
       /\ \/ \E p \in VariantProps : ToastAs("toast", toast(p))
          \/ \E p \in VariantProps : ToastAs("success", toastSuccess(p))
          \/ \E p \in VariantProps : ToastAs("error", toastError(p))
          \/ \E p \in VariantProps : ToastAs("warning", toastWarning(p))
          \/ \E p \in VariantProps : ToastAs("info", toastInfo(p))
    \/ \E a \in CapArgs : HookDismiss(a)
    \/ ClearAll
    \/ \E h \in DOMAIN timers : TimerFire(h)

SpecVariants == Init /\ [][NextVariants]_vars

----------------------------------------------------------------------------
(* The weather card (WeatherComponent).  A handler runs to completion: the  *)
(* setState calls it makes are applied one after the other, in the order    *)
(* of the code, and no other callback runs in between.  Weather data are    *)
(* told apart by their location name only.                                  *)

DEMO_WEATHER == [location |-> [name |-> "Demo Location", country |-> "Earth"]]

\* the mockWeather object fetchWeather builds
mockWeather == [location |-> [name |-> "Your Location", country |-> "Local"]]

\* the positions the browser reports
Positions ==
    {[latitude |-> 0, longitude |-> 0], [latitude |-> 48, longitude |-> 2]}

\* the codes of a GeolocationPositionError
PositionErrors == {"PERMISSION_DENIED", "POSITION_UNAVAILABLE", "TIMEOUT"}

\* a call of the setter of a React state
SetState(name, value) == [set |-> name, value |-> value]

\* the branch of getUserLocation taken when navigator.geolocation is missing
geolocationMissing ==
    <<SetState("error", Some("Geolocation is not supported by this browser")),
      SetState("weather", Some(DEMO_WEATHER)),
      SetState("loading", FALSE)>>

\* the success callback of getCurrentPosition
onPosition(position) ==
    <<SetState("location", Some(position)), SetState("error", Null)>>

\* the error callback of getCurrentPosition giving up without demo data
onPositionError_NoDemo(err) ==
    <<SetState("error",
               Some("Unable to get your location. Showing demo data.")),
      SetState("loading", FALSE)>>

\* the error callback of getCurrentPosition
onPositionError(err) ==
    <<SetState("error",
               Some("Unable to get your location. Showing demo data.")),
      SetState("weather", Some(DEMO_WEATHER)),
      SetState("loading", FALSE)>>

\* getUserLocation(): what it sets at once and the requests it leaves pending
getUserLocation ==
    IF ~geolocation
    THEN [updates |-> geolocationMissing, geoRequests |-> geoRequests]
    ELSE [updates |-> <<>>, geoRequests |-> geoRequests + 1]

\* fetchWeather(coords) up to its await
fetchWeatherBegin == <<SetState("loading", TRUE), SetState("error", Null)>>

\* fetchWeather(coords) from its await on: the rest of the try block and the
\* finally block, or the catch block and the finally block
fetchWeatherEnd(ok) ==
    IF ok
    THEN <<SetState("weather", Some(mockWeather)), SetState("loading", FALSE)>>
    ELSE <<SetState("error",
                    Some("Failed to fetch weather data. Showing demo data.")),
           SetState("weather", Some(DEMO_WEATHER)),
           SetState("loading", FALSE)>>

\* the first effect: setMounted(true); getUserLocation().  The second effect
\* finds no location yet.
Mount ==
    /\ ~mounted
    /\ updates = <<>>
    /\ updates' = <<SetState("mounted", TRUE)>> \o getUserLocation.updates
    /\ geoRequests' = getUserLocation.geoRequests
    /\ UNCHANGED <<geolocation, weather, loading, error, location, mounted,
                   fetches>>
    /\ UNCHANGED storeVars

\* the browser reports a position: the success callback, then the second
\* effect, which sees a new location object and calls fetchWeather(location)
PositionFound(position) ==
    /\ updates = <<>>
    /\ geoRequests > 0
    /\ fetches < MaxPending
    /\ geoRequests' = geoRequests - 1
    /\ updates' = onPosition(position) \o fetchWeatherBegin
    /\ fetches' = fetches + 1
    /\ UNCHANGED <<geolocation, weather, loading, error, location, mounted>>
    /\ UNCHANGED storeVars

\* the browser reports that it has no position: the error callback
PositionFailed(err) ==
    /\ updates = <<>>
    /\ geoRequests > 0
    /\ geoRequests' = geoRequests - 1
    /\ updates' = onPositionError(err)
    /\ UNCHANGED <<geolocation, weather, loading, error, location, mounted,
                   fetches>>
    /\ UNCHANGED storeVars

\* the promise a fetchWeather call awaits settles
FetchSettled(ok) ==
    /\ updates = <<>>
    /\ fetches > 0
    /\ fetches' = fetches - 1
    /\ updates' = fetchWeatherEnd(ok)
    /\ UNCHANGED <<geolocation, weather, loading, error, location, mounted,
                   geoRequests>>
    /\ UNCHANGED storeVars

\* a click on the refresh button of the weather card or on Retry, which are
\* rendered when the component is mounted and not loading: handleRefresh
Refresh ==
    /\ updates = <<>>
    /\ mounted
    /\ ~loading
    /\ IF location # Null
       THEN /\ fetches < MaxPending
            /\ updates' = fetchWeatherBegin
            /\ fetches' = fetches + 1
            /\ UNCHANGED geoRequests
       ELSE /\ geoRequests < MaxPending
            /\ updates' = getUserLocation.updates
            /\ geoRequests' = getUserLocation.geoRequests
            /\ UNCHANGED fetches
    /\ UNCHANGED <<geolocation, weather, loading, error, location, mounted>>
    /\ UNCHANGED storeVars

\* the running handler makes its next setState call
SetNext ==
    /\ updates # <<>>
    /\ LET u == Head(updates)
       IN  /\ weather' = IF u.set = "weather" THEN u.value ELSE weather
           /\ loading' = IF u.set = "loading" THEN u.value ELSE loading
           /\ error' = IF u.set = "error" THEN u.value ELSE error
           /\ location' = IF u.set = "location" THEN u.value ELSE location
           /\ mounted' = IF u.set = "mounted" THEN u.value ELSE mounted
    /\ updates' = Tail(updates)
    /\ UNCHANGED <<geolocation, geoRequests, fetches>>
    /\ UNCHANGED storeVars

\* the page is loaded in a browser with or without geolocation
InitWeather ==
    /\ count = 0
    /\ memoryState = EmptyState
    /\ toastTimeouts = EmptyMap
    /\ timers = EmptyBag
    /\ now = 0
    /\ listeners = <<>>
    /\ phase = [c \in Components |-> "none"]
    /\ local = [c \in Components |-> EmptyState]
    /\ notified = NoNotification
    /\ hist = [born |-> EmptyMap, at |-> EmptyMap, dismissed |-> {},
               wrapped |-> FALSE]
    /\ last = [op |-> "init", arg |-> Undefined, dropped |-> {}, disarmed |-> {}]
    /\ geolocation \in BOOLEAN
    /\ WeatherConstructed

NextWeather ==
    \/ Mount
    \/ \E position \in Positions : PositionFound(position)
    \/ \E err \in PositionErrors : PositionFailed(err)
    \/ \E ok \in BOOLEAN : FetchSettled(ok)
    \/ Refresh
    \/ SetNext

SpecWeather == InitWeather /\ [][NextWeather]_vars

----------------------------------------------------------------------------
(* Claims *)

Toasts == memoryState.toasts

\* the ids of the toasts of the list, head first
IdSeq(toasts) == [i \in 1..Len(toasts) |-> toasts[i].id]

\* C1: in every reachable state the toast list holds at most TOAST_LIMIT toasts
C1_Capacity == Len(Toasts) <= TOAST_LIMIT

\* a creation has just overflowed the capacity: the list is full and the
\* oldest toast was dropped
C1_Witness ==
    /\ last.op = "toast"
    /\ last.dropped # {}
    /\ Len(Toasts) = TOAST_LIMIT

\* C2: every creation puts the new toast at the head, keeps the toasts that
\* were there in their order as far as the capacity allows, and so yields
\* min(capacity, previous count + 1) toasts; it is never rejected
C2_AddKeepsNewest ==
    [][last'.op = "toast" =>
          /\ Len(Toasts') = Min(TOAST_LIMIT, Len(Toasts) + 1)
          /\ Toasts'[1].id = IdOf(count')
          /\ Toasts'[1].open
          /\ Tail(Toasts') = SubSeq(Toasts, 1, Len(Toasts') - 1)]_vars

\* six creations A..F and nothing removed: the list is [F, E, D, C, B]
C2_Witness ==
    /\ last.op = "toast"
    /\ IdSeq(Toasts) = <<IdOf(6), IdOf(5), IdOf(4), IdOf(3), IdOf(2)>>

\* C3: after CLEAR_ALL the toast list and the timer registry are empty, no
\* timer is left armed, and the listeners CLEAR_ALL called were handed the
\* empty list with the registry already empty
C3_ClearAllEmpties ==
    last.op = "clearAll" =>
        /\ Toasts = <<>>
        /\ toastTimeouts = EmptyMap
        /\ timers = EmptyBag
        /\ notified.to # <<>> =>
              /\ notified.state = EmptyState
              /\ notified.timerIds = {}
              /\ \A c \in Range(notified.to) : local[c] = EmptyState

\* clearAll has erased toasts whose timers were pending, with a listener
\* subscribed
C3_Witness ==
    /\ last.op = "clearAll"
    /\ last.dropped \cap last.disarmed # {}
    /\ notified.to # <<>>

\* C4: after a REMOVE with no toastId the timer registry is empty
C4_FullRemoveEmptiesRegistry ==
    (last.op = "REMOVE_TOAST" /\ last.arg = Undefined) => toastTimeouts = EmptyMap

ActionTypes ==
    {"ADD_TOAST", "UPDATE_TOAST", "DISMISS_TOAST", "REMOVE_TOAST",
     "CLEAR_ALL_TOASTS"}

RegistryUnchanged == toastTimeouts' = toastTimeouts /\ timers' = timers

C6_EvictionCancelsTimer ==
    last.op = "toast" => last.dropped \cap DOMAIN toastTimeouts = {}

\* the toasts created with duration 0 that no dismiss has named or swept
PersistentUndismissed ==
    {i \in DOMAIN hist.born : hist.born[i] = Some(0) /\ i \notin hist.dismissed}

C9_NoZeroDelay ==
    /\ \A i \in DOMAIN toastTimeouts : toastTimeouts[i].delay # 0
    /\ \A h \in DOMAIN timers : h.delay # 0

\* the toast of the list with this id
ToastOf(id) == LET i == CHOOSE j \in 1..Len(Toasts) : Toasts[j].id = id
               IN  Toasts[i]

\* C10: a dismiss naming a toast of the list arms the timer of that id with
\* the toast's own duration when it has one and with the default delay
\* otherwise
C10_DismissUsesOwnDuration ==
    (/\ last.op \in {"dismiss", "handle.dismiss", "onOpenChange(false)"}
     /\ Truthy(last.arg)
     /\ last.arg[1] \in Ids(Toasts)) =>
        LET id == last.arg[1]
            d  == ToastOf(id).duration
        IN  /\ id \in DOMAIN toastTimeouts
            /\ toastTimeouts[id].delay =
                  IF d = Undefined THEN TOAST_REMOVE_DELAY ELSE d[1]

\* the number of armed timers whose callback removes the toast with this id
ArmedCount(armed, id) ==
    BagCardinality([h \in {x \in DOMAIN armed : x.toastId = id} |-> armed[h]])

\* duration ?? TOAST_REMOVE_DELAY
DelayOf(duration) ==
    IF duration = Undefined THEN TOAST_REMOVE_DELAY ELSE duration[1]

\* C11: a dismiss with no id closes every toast of the list, keeps the order
\* and the other fields of the toasts, and leaves for each toast of the list
\* exactly one armed timer, registered under its id, whose delay is the
\* toast's own duration when it is defined and the default delay otherwise
C11_GlobalDismiss ==
    [][(last'.op = "dismiss" /\ last'.arg = Undefined) =>
          /\ Len(Toasts') = Len(Toasts)
          /\ \A i \in 1..Len(Toasts) :
                LET t  == Toasts[i]
                    t2 == Toasts'[i]
                IN  /\ t2 = [t EXCEPT !.open = FALSE]
                    /\ t.id \in DOMAIN toastTimeouts'
                    /\ toastTimeouts'[t.id].delay = DelayOf(t.duration)
                    /\ BagIn(toastTimeouts'[t.id], timers')
                    /\ ArmedCount(timers', t.id) = 1]_vars

\* a dismiss with no id has closed two toasts, one with a duration of its own
\* and one without, and each has its timer
C11_Witness ==
    /\ last.op = "dismiss"
    /\ last.arg = Undefined
    /\ Len(Toasts) = 2
    /\ \A i \in 1..2 : ~Toasts[i].open
    /\ \E i, j \in 1..2 :
          /\ Toasts[i].duration = Some(WARNING_DURATION)
          /\ toastTimeouts[Toasts[i].id].delay = WARNING_DURATION
          /\ Toasts[j].duration = Undefined
          /\ toastTimeouts[Toasts[j].id].delay = TOAST_REMOVE_DELAY

\* the action { type: DISMISS_TOAST, toastId: id }
DismissOf(id) == [type |-> "DISMISS_TOAST", toastId |-> Some(id)]

\* C12: in every reachable state and for every id, the reducer applied twice
\* to DISMISS{id} returns the toast list it returns when applied once, and
\* the registry then holds one timer for the id, the only one armed for it
C12_DismissIdempotent ==
    \A id \in EveryId :
        LET once  == reducer(memoryState, Reg, DismissOf(id))
            twice == reducer(once.state, once.R, DismissOf(id))
        IN  /\ twice.state = once.state
            /\ id \in DOMAIN twice.R.timeouts
            /\ BagIn(twice.R.timeouts[id], twice.R.timers)
            /\ ArmedCount(twice.R.timers, id) = 1

\* DISMISS{id} has just been dispatched for an open toast of a list that
\* holds other toasts, still open: the state a second DISMISS{id} meets
C12_Witness ==
    /\ last.op = "DISMISS_TOAST"
    /\ Truthy(last.arg)
    /\ last.arg[1] \in Ids(Toasts)
    /\ ~ToastOf(last.arg[1]).open
    /\ \E i \in 1..Len(Toasts) : Toasts[i].open

\* the action handle.update(props) dispatches: { type: UPDATE_TOAST,
\* toast: { ...props, id } }
UpdateOf(id, props) ==
    [type |-> "UPDATE_TOAST", toast |-> Spread(props, [id |-> id])]

\* partial toasts: those of UpdateProps, a title, two fields at once, and one
\* that carries the id of another toast
PartialToasts ==
    UpdateProps \cup {[title |-> "b"],
                      [title |-> "b", duration |-> Some(0)],
                      [id |-> IdOf(2)], [id |-> IdOf(1), open |-> FALSE]}

\* C13: in every reachable state, UPDATE{id, fields} returns a list of the
\* same length and order in which the toast with that id has the supplied
\* fields, its other fields and its id as before, and every other toast is
\* as before
C13_UpdateFrame ==
    \A id \in AllIds, p \in PartialToasts :
        LET new == reducer(memoryState, Reg, UpdateOf(id, p)).state.toasts
        IN  /\ Len(new) = Len(Toasts)
            /\ \A i \in 1..Len(Toasts) :
                  LET t == Toasts[i]
                  IN  IF t.id = id
                      THEN /\ DOMAIN new[i] = DOMAIN t \cup DOMAIN p
                           /\ new[i].id = id
                           /\ \A f \in DOMAIN p \ {"id"} : new[i][f] = p[f]
                           /\ \A f \in DOMAIN t \ DOMAIN p : new[i][f] = t[f]
                      ELSE new[i] = t

\* handle.update has changed the duration of one of two toasts
C13_Witness ==
    /\ last.op = "handle.update"
    /\ Len(Toasts) = 2
    /\ last.arg[1] \in Ids(Toasts)
    /\ ToastOf(last.arg[1]).duration # hist.born[last.arg[1]]

\* C14: a handle.update (UPDATE) or a timer callback (REMOVE) for an id that
\* is not in the toast list is performed and leaves the toast list unchanged
C14_AbsentIdNoOp ==
    [][(/\ last'.op \in {"handle.update", "timer"}
        /\ last'.arg[1] \notin Ids(Toasts)) => Toasts' = Toasts]_vars

\* the timer of a toast that a creation had dropped from the full list has
\* fired, and the list is still full
C14_Witness ==
    /\ last.op = "timer"
    /\ last.dropped = {}
    /\ last.arg[1] \notin Ids(Toasts)
    /\ Len(Toasts) = TOAST_LIMIT

\* C15: a dismiss (by the handle, by onOpenChange or by dismiss(id)) naming an
\* id that is not in the toast list leaves the toast list and the timer
\* registry as they were
C15_AbsentDismissNoOp ==
    [][(/\ last'.op \in {"handle.dismiss", "onOpenChange(false)", "dismiss"}
        /\ Truthy(last'.arg)
        /\ last'.arg[1] \notin Ids(Toasts))
          => Toasts' = Toasts /\ RegistryUnchanged]_vars

\* C16: in every reachable state at most one timer is armed per toast id
C16_OneTimerPerId ==
    \A id \in {h.toastId : h \in DOMAIN timers} : ArmedCount(timers, id) <= 1

\* a timer has been scheduled for an id that already had one: a toast created
\* with the default delay, whose timer was pending, was swept by a dismiss
\* that re-armed it with another delay, and one timer is armed for it
C16_Witness ==
    /\ last.op = "dismiss"
    /\ last.arg = Undefined
    /\ \E id \in Ids(Toasts) :
          /\ hist.born[id] = Undefined
          /\ toastTimeouts[id].delay = WARNING_DURATION
          /\ ArmedCount(timers, id) = 1

\* C17: when toast() has returned, the toast with the returned id is the
\* first of the list and is open; a timer is registered and armed for the id
\* if and only if the duration passed is not 0, and its delay is the duration
\* when one was passed and TOAST_REMOVE_DELAY when none was
C17_CreateArmsTimer ==
    last.op = "toast" =>
        LET id == last.arg[1]
            d  == hist.born[id]
        IN  /\ Toasts # <<>>
            /\ Toasts[1].id = id
            /\ Toasts[1].open
            /\ Toasts[1].duration = d
            /\ id \in DOMAIN toastTimeouts <=> d # Some(0)
            /\ ArmedCount(timers, id) = IF d = Some(0) THEN 0 ELSE 1
            /\ d # Some(0) =>
                  /\ BagIn(toastTimeouts[id], timers)
                  /\ toastTimeouts[id].delay =
                        IF d = Undefined THEN TOAST_REMOVE_DELAY ELSE d[1]

\* C18: the dismiss() of the handle of a toast that is in the list closes
\* that toast, leaves every other toast, the order and the length of the list
\* as they were, and leaves one armed timer for the id, the one registered
C18_HandleDismiss ==
    [][(last'.op = "handle.dismiss" /\ last'.arg[1] \in Ids(Toasts)) =>
          LET id == last'.arg[1]
          IN  /\ Len(Toasts') = Len(Toasts)
              /\ \A i \in 1..Len(Toasts) :
                    Toasts'[i] = IF Toasts[i].id = id
                                 THEN [Toasts[i] EXCEPT !.open = FALSE]
                                 ELSE Toasts[i]
              /\ id \in DOMAIN toastTimeouts'
              /\ BagIn(toastTimeouts'[id], timers')
              /\ ArmedCount(timers', id) = 1]_vars

\* the handle's dismiss() has closed a toast created with a duration of 7000
\* while another toast stays open: the toast is still in the list and its
\* timer of 7000 has been replaced
C18_Witness ==
    /\ last.op = "handle.dismiss"
    /\ last.arg[1] \in Ids(Toasts)
    /\ Len(Toasts) = 2
    /\ ~ToastOf(last.arg[1]).open
    /\ \E i \in 1..2 : Toasts[i].open
    /\ hist.born[last.arg[1]] = Some(WARNING_DURATION)
    /\ last.disarmed = {}
    /\ toastTimeouts[last.arg[1]].delay # WARNING_DURATION

\* genId has returned n before: before the counter wraps it has returned
\* 1..count, and once it has wrapped it has returned every value
WasIssued(n) == hist.wrapped \/ (1 <= n /\ n <= count)

\* no two toasts of the list have the same id
NoSharedIds ==
    \A i, j \in 1..Len(Toasts) : Toasts[i].id = Toasts[j].id => i = j

\* C19 as claimed: every creation returns an id that no earlier creation
\* returned, also after cleanup() and after the id counter has wrapped, and
\* no two toasts of the list share an id
C19_IdsNeverReused ==
    /\ []NoSharedIds
    /\ [][last'.op = "toast" => ~WasIssued(count')]_vars

\* C19 as amended: no two toasts of the list share an id, and until the id
\* counter wraps every creation returns an id that no earlier creation
\* returned
C19_IdsUniqueUntilWrap ==
    /\ []NoSharedIds
    /\ [][(last'.op = "toast" /\ ~hist.wrapped) => ~WasIssued(count')]_vars

\* the counter has wrapped and the five toasts of the list were created on
\* both sides of the wrap
C19_Witness ==
    /\ hist.wrapped
    /\ last.op = "toast"
    /\ IdSeq(Toasts) = <<IdOf(2), IdOf(1), IdOf(0),
                         IdOf(MAX_SAFE_INTEGER - 1), IdOf(MAX_SAFE_INTEGER - 2)>>

\* another operation has interfered with the toast: a dismiss named it or
\* swept it, or the last step erased it from the list otherwise than by a
\* timer (a clearAll, a cleanup or an eviction)
Disturbed(id) ==
    \/ id \in hist.dismissed
    \/ id \in last.dropped /\ last.op # "timer"

\* C20: a toast created at time t with a duration d > 0 (or with none, d
\* being TOAST_REMOVE_DELAY) that nothing has interfered with is in the list
\* at every instant before t + d and in the list at no instant after t + d
C20_PresentUntilDue ==
    \A id \in DOMAIN hist.born :
        LET d == DelayOf(hist.born[id])
        IN  (d > 0 /\ ~Disturbed(id)) =>
                /\ now < hist.at[id] + d => id \in Ids(Toasts)
                /\ now > hist.at[id] + d => id \notin Ids(Toasts)

\* one ms after the short duration has elapsed since its creation, a toast
\* that nothing has interfered with is absent from the list
C20_Witness ==
    /\ last.op = "tick"
    /\ \E id \in DOMAIN hist.born :
          /\ hist.born[id] = Some(ShortDuration)
          /\ ~Disturbed(id)
          /\ now = hist.at[id] + ShortDuration + 1
          /\ id \notin Ids(Toasts)

\* C21: whenever the REMOVE issued by a timer erases a toast from the list,
\* that toast is closed (open = false) at that moment: a DISMISS of it has
\* occurred before
C21_DismissBeforeRemove ==
    [][last'.op = "timer" =>
          \A id \in Ids(Toasts) \ Ids(Toasts') : ~ToastOf(id).open]_vars

\* the last step was a dismiss that named this toast of the list or swept it
JustDismissed(id) ==
    /\ last.op \in {"handle.dismiss", "onOpenChange(false)", "dismiss"}
    /\ id \in Ids(Toasts)
    /\ id \in DismissTargets(memoryState, last.arg)

\* C22: if armed timers eventually fire, a toast that a dismiss (by its
\* handle, by onOpenChange(false), by dismiss(id) or by dismiss()) has hit
\* while it was in the list is eventually erased from the list
C22_DismissedEventuallyErased ==
    \A id \in LiveIds : JustDismissed(id) ~> (id \notin Ids(Toasts))

\* a timer has erased a toast that was created with duration 0 and dismissed:
\* the timer was the one the dismiss armed
C22_Witness ==
    /\ last.op = "timer"
    /\ \E id \in last.dropped :
          /\ hist.born[id] = Some(0)
          /\ id \in hist.dismissed

\* C23: after cleanup() the timer registry, the toast list and the listener
\* list are empty and no timer is left armed, whatever the state before; a
\* second cleanup() right after the first changes nothing in the program's
\* state
C23_Cleanup ==
    /\ [](last.op = "cleanup" =>
             /\ toastTimeouts = EmptyMap
             /\ timers = EmptyBag
             /\ Toasts = <<>>
             /\ listeners = <<>>)
    /\ [][(last.op = "cleanup" /\ last'.op = "cleanup") =>
             UNCHANGED <<count, memoryState, toastTimeouts, timers, now,
                         listeners, phase, local, notified>>]_vars

\* cleanup() has erased toasts, cancelled their pending timers and dropped
\* the listener of a binding that had subscribed
C23_Witness ==
    /\ last.op = "cleanup"
    /\ last.dropped \cap last.disarmed # {}
    /\ \E c \in Components : phase[c] = "subscribed"

\* the operations that go through dispatch
DispatchOps ==
    {"toast", "handle.dismiss", "handle.update", "onOpenChange(false)",
     "dismiss", "clearAll", "timer"}

\* C24: after every dispatch, the REMOVE of a firing timer included, the
\* listeners called were the registered ones, each once, in subscription
\* order, all with the state the dispatch produced, which is the state every
\* subscribed binding now holds: no binding lags behind the store
C24_NotifyAllInOrder ==
    (last.op \in DispatchOps /\ listeners # <<>>) =>
        /\ notified.to = listeners
        /\ \A i, j \in 1..Len(notified.to) :
              notified.to[i] = notified.to[j] => i = j
        /\ notified.state = memoryState
        /\ \A c \in Range(listeners) : local[c] = memoryState

\* the REMOVE of a firing timer has erased a toast and was notified to two
\* subscribed bindings
C24_Witness ==
    /\ last.op = "timer"
    /\ last.dropped # {}
    /\ Len(listeners) = 2
    /\ notified.to = listeners

\* listener lists of up to three bindings, none registered twice
ListenerLists ==
    {<<>>} \cup {<<a>> : a \in 1..3}
           \cup {s \in {<<a, b>> : a \in 1..3, b \in 1..3} : s[1] # s[2]}
           \cup {<<1, 2, 3>>, <<1, 3, 2>>, <<2, 1, 3>>, <<2, 3, 1>>,
                 <<3, 1, 2>>, <<3, 2, 1>>}

\* C25: the unsubscription of a binding leaves in the listener list every
\* other registered listener, in the same order, and removes that binding's
\* only; when the binding is not registered the list is unchanged.  The
\* same holds of indexOf and splice on every list of up to three listeners.
C25_UnsubscribeOne ==
    /\ [][last'.op = "unmount" =>
             \E c \in Components :
                 /\ phase[c] = "subscribed"
                 /\ phase'[c] = "none"
                 /\ listeners' = SelectSeq(listeners, LAMBDA x : x # c)
                 /\ Len(listeners') >= Len(listeners) - 1
                 /\ c \notin Range(listeners) => listeners' = listeners]_vars
    /\ [](\A ls \in ListenerLists, c \in 1..3 :
             LET index == IndexOf(ls, c)
                 after == IF index > 0 THEN Splice(ls, index) ELSE ls
             IN  after = SelectSeq(ls, LAMBDA x : x # c))

\* the binding that subscribed first has unmounted and the one that
\* subscribed after it is still registered
C25_Witness ==
    /\ last.op = "unmount"
    /\ listeners = <<2>>
    /\ phase[1] = "none"
    /\ phase[2] = "subscribed"

\* C26: in every reachable state every armed timer is the one registered for
\* its id, once, so that a timer cancelled by a dismiss, a reschedule, a
\* CLEAR_ALL or a cleanup is not armed any more; the timer that fires for an
\* id is the one registered for the id at that moment; and cancelling an id
\* that has no timer leaves the registry as it is
C26_CancelledNeverActs ==
    /\ [](\A h \in DOMAIN timers :
             /\ timers[h] = 1
             /\ h.toastId \in DOMAIN toastTimeouts
             /\ toastTimeouts[h.toastId] = h)
    /\ [](\A id \in EveryId \ DOMAIN toastTimeouts :
             removeFromRemoveQueue(Reg, id) = Reg)
    /\ [][last'.op = "timer" =>
             LET id == last'.arg[1]
             IN  /\ id \in DOMAIN toastTimeouts
                 /\ BagIn(toastTimeouts[id], timers)
                 /\ timers' = timers (-) SetToBag({toastTimeouts[id]})]_vars

\* dismiss(id) has cancelled the timer of 7000 ms armed at the creation of a
\* toast that is still in the list: the only timer armed is the one the
\* dismiss armed
C26_Witness ==
    /\ last.op = "dismiss"
    /\ Truthy(last.arg)
    /\ last.arg[1] \in Ids(Toasts)
    /\ hist.born[last.arg[1]] = Some(WARNING_DURATION)
    /\ ToastOf(last.arg[1]).duration = Some(WARNING_DURATION)
    /\ DOMAIN timers = {Handle(last.arg[1], TOAST_REMOVE_DELAY)}

\* C27: right after the timer of an id has fired, the id has no entry in the
\* timer registry, no timer armed, and no toast in the list
C27_FiringRemoves ==
    last.op = "timer" =>
        LET id == last.arg[1]
        IN  /\ id \notin DOMAIN toastTimeouts
            /\ ArmedCount(timers, id) = 0
            /\ id \notin Ids(Toasts)

\* the timer of the newer of two toasts has fired: its entry and its toast
\* are gone, the older toast and its timer stay
C27_Witness ==
    /\ last.op = "timer"
    /\ last.dropped = {IdOf(2)}
    /\ last.disarmed = {IdOf(2)}
    /\ IdSeq(Toasts) = <<IdOf(1)>>
    /\ IdOf(1) \in DOMAIN toastTimeouts

\* C28: in every reachable state and for every props a caller passes, the
\* error variant creates a toast of duration 0 and leaves the timer registry
\* as it was, whatever the duration in props; the warning variant creates a
\* toast of duration 7000 with a timer of 7000 ms; the success and info
\* variants leave what toast(props) leaves, but for the variant field
C28_VariantPresets ==
    \A p \in VariantProps :
        LET t == toast(p)
            e == toastError(p)
            w == toastWarning(p)
            new(r) == r.d.state.toasts[1]
        IN  /\ new(e).id = e.id
            /\ new(e).duration = Some(0)
            /\ new(e).variant = "destructive"
            /\ e.d.R = Reg
            /\ new(w).id = w.id
            /\ new(w).duration = Some(WARNING_DURATION)
            /\ w.id \in DOMAIN w.d.R.timeouts
            /\ w.d.R.timeouts[w.id].delay = WARNING_DURATION
            /\ BagIn(w.d.R.timeouts[w.id], w.d.R.timers)
            /\ \A r \in {toastSuccess(p), toastInfo(p)} :
                  /\ r.id = t.id
                  /\ r.count = t.count
                  /\ r.d.R = t.d.R
                  /\ new(r) = Spread(new(t), [variant |-> "default"])
                  /\ Tail(r.d.state.toasts) = Tail(t.d.state.toasts)

\* the error variant has created a persistent toast without timer on top of
\* a toast the warning variant created with its timer of 7000 ms
C28_Witness ==
    /\ last.op = "error"
    /\ Len(Toasts) = 2
    /\ Toasts[1].variant = "destructive"
    /\ Toasts[1].duration = Some(0)
    /\ Toasts[1].id \notin DOMAIN toastTimeouts
    /\ Toasts[2].duration = Some(WARNING_DURATION)
    /\ toastTimeouts[Toasts[2].id].delay = WARNING_DURATION

\* the value of count an id was made from
NumOf(id) == CHOOSE n \in 0..MaxToasts : IdOf(n) = id

\* C29: in every reachable state, of any two toasts of the list the one
\* created later is nearer the head; an update, a dismiss and the REMOVE of
\* an id leave the toasts that stay in the order they had
C29_NewestFirst ==
    /\ [](\A i, j \in 1..Len(Toasts) :
             i < j => NumOf(Toasts[i].id) > NumOf(Toasts[j].id))
    /\ [][last'.op \in {"handle.update", "handle.dismiss",
                        "onOpenChange(false)", "dismiss", "timer"} =>
             IdSeq(Toasts') =
                 SelectSeq(IdSeq(Toasts), LAMBDA x : x \in Ids(Toasts'))]_vars

\* a timer has erased the toast between two others, which stay in order
C29_Witness ==
    /\ last.op = "timer"
    /\ last.dropped = {IdOf(2)}
    /\ IdSeq(Toasts) = <<IdOf(3), IdOf(1)>>

\* C30: onOpenChange(false) of a toast leaves the toast list and the timer
\* registry that the dismiss() of the toast's handle leaves from the same
\* state (the named toast closed, the others as they were, its timer
\* re-armed); onOpenChange(true) leaves both as they were
C30_OnOpenChange ==
    [][/\ last'.op = "onOpenChange(false)" =>
             LET id == last'.arg[1]
                 d  == dismissHandle(memoryState, Reg, listeners, local, id)
             IN  /\ memoryState' = d.state
                 /\ toastTimeouts' = d.R.timeouts
                 /\ timers' = d.R.timers
                 /\ \A i \in 1..Len(Toasts) :
                       Toasts'[i] = IF Toasts[i].id = id
                                    THEN [Toasts[i] EXCEPT !.open = FALSE]
                                    ELSE Toasts[i]
                 /\ id \in DOMAIN toastTimeouts'
       /\ last'.op = "onOpenChange(true)" =>
             Toasts' = Toasts /\ RegistryUnchanged]_vars

\* the rendering layer has reported the closing of one of two toasts: the
\* toast is closed, has its timer, and the other toast is open
C30_Witness ==
    /\ last.op = "onOpenChange(false)"
    /\ Len(Toasts) = 2
    /\ last.arg[1] \in Ids(Toasts)
    /\ ~ToastOf(last.arg[1]).open
    /\ last.arg[1] \in DOMAIN toastTimeouts
    /\ \E i \in 1..2 : Toasts[i].open

\* C31: a REMOVE naming an id, dispatched by a caller or by a timer, erases
\* from the list the toast with that id and no other, the toasts that stay
\* being the same in the same order; a REMOVE with no id leaves the list
\* empty
C31_Remove ==
    [][last'.op \in {"REMOVE_TOAST", "timer"} =>
          IF last'.arg = Undefined
          THEN Toasts' = <<>>
          ELSE LET id   == last'.arg[1]
                   kept == {i \in 1..Len(Toasts) : Toasts[i].id # id}
               IN  /\ Len(Toasts') = Cardinality(kept)
                   /\ id \notin Ids(Toasts')
                   /\ \A i \in kept :
                         Toasts'[Cardinality({j \in kept : j <= i})] = Toasts[i]]_vars

\* REMOVE{id} has erased the oldest of several toasts
C31_Witness ==
    /\ last.op = "REMOVE_TOAST"
    /\ last.arg = Some(IdOf(1))
    /\ last.dropped = {IdOf(1)}
    /\ Len(Toasts) >= 2

\* C32: the React state of every binding whose listener is registered is the
\* store's current state
C32_SubscribedInSync ==
    \A c \in Components :
        (phase[c] = "subscribed" /\ c \in Range(listeners)) =>
            local[c] = memoryState

\* C33: when no update sets the open field, every closed toast of the list
\* has a timer registered under its id, and that timer is armed
C33_ClosedHasTimer ==
    \A i \in 1..Len(Toasts) :
        ~Toasts[i].open =>
            /\ Toasts[i].id \in DOMAIN toastTimeouts
            /\ BagIn(toastTimeouts[Toasts[i].id], timers)

\* the handle's dismiss() has closed a toast created with duration 0, which
\* had no timer, and the toast has one now
C33_Witness ==
    /\ last.op = "handle.dismiss"
    /\ last.arg[1] \in Ids(Toasts)
    /\ hist.born[last.arg[1]] = Some(0)
    /\ ~ToastOf(last.arg[1]).open
    /\ last.arg[1] \in DOMAIN toastTimeouts
    /\ Len(Toasts) >= 2

\* C34: if armed timers eventually fire, a toast of the list that was created
\* with a duration other than 0 is eventually absent from the list, whatever
\* dismisses, updates and creations come in between
C34_TimedEventuallyAbsent ==
    \A id \in LiveIds :
        (id \in Ids(Toasts) /\ hist.born[id] # Some(0))
            ~> (id \notin Ids(Toasts))

\* a timer has erased a toast created with a duration of 7000 that no
\* dismiss had named or swept: the timer armed at its creation
C34_Witness ==
    /\ last.op = "timer"
    /\ \E id \in last.dropped :
          /\ hist.born[id] = Some(WARNING_DURATION)
          /\ id \notin hist.dismissed

\* C35: a handle.update (UPDATE), whatever fields it carries, leaves the
\* timer registry as it was: no timer is armed, cancelled or rescheduled
C35_UpdateKeepsRegistry ==
    [][last'.op = "handle.update" => RegistryUnchanged]_vars

\* handle.update has set the duration of a listed toast to 0 and the timer
\* of 7000 armed at its creation is still armed
C35_Witness ==
    /\ last.op = "handle.update"
    /\ last.arg[1] \in Ids(Toasts)
    /\ ToastOf(last.arg[1]).duration = Some(0)
    /\ hist.born[last.arg[1]] = Some(WARNING_DURATION)
    /\ last.arg[1] \in DOMAIN toastTimeouts
    /\ toastTimeouts[last.arg[1]].delay = WARNING_DURATION
    /\ BagIn(toastTimeouts[last.arg[1]], timers)

C37_LoadedHasWeather ==
    /\ ~loading => weather # Null
    /\ ~(mounted /\ ~loading /\ weather = Null)

\* after refresh clicks, a geolocation error has ended the loading that a
\* fetch still in flight had started: the card shows the demo data
C37_Witness ==
    /\ mounted
    /\ updates = <<>>
    /\ ~loading
    /\ weather = Some(DEMO_WEATHER)
    /\ location # Null
    /\ fetches > 0

====
